---- MODULE Spec2Model ----
(***************************************************************************)
(* Order placement pipeline of the Hyperliquid CLI:                        *)
(*   Config accessors            src/src/config/loader.rs                  *)
(*   TradingService::place_order src/src/services/trading.rs               *)
(*   TradingService::cancel_order src/src/services/trading.rs              *)
(*   run_cli, buy and sell       src/src/cli.rs                            *)
(*   StreamingService::stream_data src/src/services/streaming.rs           *)
(*                                                                         *)
(* Representation.  An f64 is an integer number of tenths (0.1 is 1,       *)
(* 50000.0 is 500000); the product of two f64 is kept exact, in            *)
(* hundredths, and is compared with a limit brought to hundredths.         *)
(* Option<T> is a sequence of length 0 (None) or 1 (Some).  A String that  *)
(* is parsed is a sequence of one-character strings; a message is a        *)
(* sequence of string tokens, the literal pieces of the format string and  *)
(* the formatted arguments in order.                                       *)
(***************************************************************************)
EXTENDS Integers, Sequences, FiniteSets, TLC

VARIABLES
    config,         \* the Config the TradingService was constructed with
    pc,             \* where the current place_order call stands
    order_request,  \* the OrderRequest of the current call
    timestamp,      \* the timestamp place_order captured, an Option
    validation,     \* the Result of validate_order
    price,          \* the price validate_notional resolved, an Option<Result>
    net_calls,      \* the calls made to the exchange during the current call
    ret             \* what place_order returned

\* the state of one TradingService call
trading_vars ==
    <<config, pc, order_request, timestamp, validation, price, net_calls, ret>>

VARIABLES
    cli_pc,         \* where run_cli stands
    cli_command,    \* the parsed Commands value run_cli was given
    trading_service,        \* whether TradingService::new has returned one
    cli_stderr,     \* the lines run_cli wrote with eprintln!
    cli_exit        \* the exit code of the process, an Option

cli_vars == <<cli_pc, cli_command, trading_service, cli_stderr, cli_exit>>

VARIABLES
    decisions       \* the Results of the validate_order calls made so far

VARIABLES
    s_pc,           \* where stream_data stands
    duration,       \* the duration argument, in seconds
    clock_now,      \* tenths of a second since start_time was taken
    last_ping,      \* clock_now when last_ping was last taken
    message_count,  \* frames received
    trade_count,    \* trades printed
    no_message_count,       \* consecutive receive timeouts
    subscription_confirmed, \* a subscriptionResponse has been received
    frames_left,    \* frames, errors and ends the remote may still deliver
    sent,           \* the messages given to ws_sender.send, in order
    closes,         \* the results of ws_sender.close
    printed,        \* the lines written to the terminal, in order
    exit_reason,    \* which branch left the receive loop
    stream_ret      \* what stream_data returned

stream_vars ==
    <<s_pc, duration, clock_now, last_ping, message_count, trade_count,
      no_message_count, subscription_confirmed, frames_left, sent,
      closes, printed, exit_reason, stream_ret>>

\* everything a TradingService call leaves alone
outside_trading == <<cli_vars, decisions, stream_vars>>

vars == <<trading_vars, cli_vars, decisions, stream_vars>>

\* ------------------------------------------------------------------------
\* Bounds

\* longest statuses vector an exchange response carries
MaxStatuses == 2

\* largest reading of the system clock, in milliseconds since the epoch
MaxTime == 1

\* most evaluations of validate_order on one (config, intent) pair
MaxEvaluations == 2

\* most events (frames, an error, the end of the stream) the remote
\* delivers in a short stream session
MaxFrames == 3

\* longest time a send on the socket takes, in tenths of a second
MaxSendDelay == 1

\* ------------------------------------------------------------------------
\* Values

None == <<>>

Some(x) == <<x>>

IsSome(o) == Len(o) > 0

Unwrap(o) == o[1]

\* an f64 with one decimal digit, in tenths
F64(whole, tenth) == whole * 10 + tenth

\* an f64 holding the value of an unsigned integer
AsF64(n) == n * 10

\* an f64 limit in the unit of a product of two f64 (hundredths)
ToProductUnit(x) == x * 10

Digits == <<"0", "1", "2", "3", "4", "5", "6", "7", "8", "9">>

IsDigit(c) == \E i \in 1..10 : Digits[i] = c

DigitVal(c) == (CHOOSE i \in 1..10 : Digits[i] = c) - 1

RECURSIVE DecimalVal(_)
DecimalVal(s) ==
    IF Len(s) = 0 THEN 0
    ELSE DecimalVal(SubSeq(s, 1, Len(s) - 1)) * 10 + DigitVal(s[Len(s)])

AllDigits(s) == Len(s) > 0 /\ \A i \in 1..Len(s) : IsDigit(s[i])

\* str::parse::<f64>() on decimal text with at most one fractional digit:
\* Some(value) or None for text that is not a number
ParseF64(s) ==
    IF AllDigits(s) THEN Some(AsF64(DecimalVal(s)))
    ELSE IF /\ Len(s) >= 3
            /\ s[Len(s) - 1] = "."
            /\ AllDigits(SubSeq(s, 1, Len(s) - 2))
            /\ IsDigit(s[Len(s)])
         THEN Some(F64(DecimalVal(SubSeq(s, 1, Len(s) - 2)), DigitVal(s[Len(s)])))
         ELSE None

\* "{}" of an unsigned integer
FmtInt(n) == ToString(n)

\* "{:.2}" of an f64 product given in hundredths
Fmt2(h) ==
    <<ToString(h \div 100), ".", ToString((h % 100) \div 10), ToString(h % 10)>>

\* ------------------------------------------------------------------------
\* Inputs

Symbols == {"BTC", "ETH"}

SymbolLimitsChoices ==
    { [max_leverage |-> 5,  max_notional |-> F64(50000, 0), enabled |-> TRUE],
      [max_leverage |-> 10, max_notional |-> F64(30000, 0), enabled |-> TRUE],
      [max_leverage |-> 10, max_notional |-> F64(5000, 0),  enabled |-> TRUE],
      [max_leverage |-> 5,  max_notional |-> F64(50000, 0), enabled |-> FALSE] }

SymbolLimitsMaps ==
    UNION { [D -> SymbolLimitsChoices] : D \in SUBSET Symbols }

Configs ==
    { [risk_limits |->
          [max_notional_per_order  |-> F64(10000, 0),
           max_notional_per_symbol |-> F64(25000, 0),
           symbol_limits           |-> m]] : m \in SymbolLimitsMaps }

Qtys == { F64(0, 1), F64(0, 2), F64(1, 0), F64(2, 0), F64(4, 0) }

LimitPrices == { F64(3000, 0), F64(15000, 0), F64(50000, 0) }

Leverages == { 3, 8, 10, 15 }

Tifs == { "Gtc", "Ioc", "Alo" }

\* the intents of the risk checks: every symbol, quantity, price and leverage,
\* with the other fields as in tests/unit_test.rs
RiskRequests ==
    [ symbol      : Symbols,
      is_buy      : {TRUE},
      qty         : Qtys,
      limit_price : {None} \cup { Some(p) : p \in LimitPrices },
      leverage    : {None} \cup { Some(l) : l \in Leverages },
      reduce_only : {FALSE},
      tif         : {"Gtc"} ]

\* the intents of the dispatch: every side, reduce-only flag and
\* time-in-force, as a limit and as a market order
DispatchRequests ==
    [ symbol      : {"BTC"},
      is_buy      : BOOLEAN,
      qty         : {F64(0, 1)},
      limit_price : {None, Some(F64(3000, 0))},
      leverage    : {None},
      reduce_only : BOOLEAN,
      tif         : Tifs ]

\* the intents the field types admit beyond those: qty is any f64, zero and
\* negative included, and tif is any String
UncheckedRequests ==
    [ symbol      : {"BTC"},
      is_buy      : {TRUE},
      qty         : {F64(0, 0), 0 - F64(0, 1), F64(0, 1)},
      limit_price : {None, Some(F64(3000, 0))},
      leverage    : {None},
      reduce_only : BOOLEAN,
      tif         : {"Gtc", "Fok"} ]

OrderRequests == RiskRequests \cup DispatchRequests \cup UncheckedRequests

NoRequest == <<>>

\* readings of SystemTime::now(): a time since the epoch, or a clock set
\* before the epoch
ClockReadings == { Some(t) : t \in 0..MaxTime } \cup {None}

PriceStrings ==
    { <<"3", "0", "0", "0">>, <<"5", "0", "0", "0", "0", ".", "0">>,
      <<"n", "/", "a">> }

\* outcomes of InfoClient::all_mids: a transport failure, or the map of mids
AllMidsOutcomes ==
    { [ok |-> FALSE, mids |-> <<>>] } \cup
    { [ok |-> TRUE, mids |-> m] :
        m \in UNION { [D -> PriceStrings] : D \in SUBSET Symbols } }

\* ------------------------------------------------------------------------
\* Result<T>: Ok carries its value in a sequence of length 1, Err carries
\* the message of the error

Ok(v) == [ok |-> TRUE, value |-> <<v>>, error |-> <<>>]

Err(e) == [ok |-> FALSE, value |-> <<>>, error |-> e]

Unit == "()"

\* ------------------------------------------------------------------------
\* Config accessors (config/loader.rs)

\* mutant: the default of an absent symbol takes the largest configured
\* leverage
get_symbol_limits_default20(cfg, symbol) ==
    IF symbol \in DOMAIN cfg.risk_limits.symbol_limits
    THEN cfg.risk_limits.symbol_limits[symbol]
    ELSE [max_leverage |-> 20,
          max_notional |-> cfg.risk_limits.max_notional_per_symbol,
          enabled      |-> TRUE]

get_symbol_limits(cfg, symbol) ==
    IF symbol \in DOMAIN cfg.risk_limits.symbol_limits
    THEN cfg.risk_limits.symbol_limits[symbol]
    ELSE [max_leverage |-> 10,
          max_notional |-> cfg.risk_limits.max_notional_per_symbol,
          enabled      |-> TRUE]

\* mutant: the enabled flag is not consulted
is_symbol_enabled_ignored(cfg, symbol) == TRUE

is_symbol_enabled(cfg, symbol) == get_symbol_limits(cfg, symbol).enabled

get_max_leverage(cfg, symbol) == get_symbol_limits(cfg, symbol).max_leverage

get_max_notional(cfg, symbol) == get_symbol_limits(cfg, symbol).max_notional

\* ------------------------------------------------------------------------
\* Risk validation (services/trading.rs)

AllMidsCall == [call |-> "all_mids"]

get_market_price(symbol, all_mids) ==
    IF ~all_mids.ok
    THEN Err(<<"Failed to fetch market prices">>)
    ELSE IF symbol \notin DOMAIN all_mids.mids
    THEN Err(<<"Price not found for symbol: ", symbol>>)
    ELSE IF ~IsSome(ParseF64(all_mids.mids[symbol]))
    THEN Err(<<"Failed to parse market price">>)
    ELSE Ok(Unwrap(ParseF64(all_mids.mids[symbol])))

\* mutant: the message is formatted without the configured maximum
validate_leverage_one_value(cfg, symbol, requested_leverage) ==
    IF /\ IsSome(requested_leverage)
       /\ Unwrap(requested_leverage) > get_max_leverage(cfg, symbol)
    THEN Err(<<"Requested leverage ", FmtInt(Unwrap(requested_leverage)),
               "x exceeds configured maximum for ", symbol>>)
    ELSE Ok(Unit)

validate_leverage(cfg, symbol, requested_leverage) ==
    IF /\ IsSome(requested_leverage)
       /\ Unwrap(requested_leverage) > get_max_leverage(cfg, symbol)
    THEN Err(<<"Requested leverage ", FmtInt(Unwrap(requested_leverage)),
               "x exceeds configured maximum ",
               FmtInt(get_max_leverage(cfg, symbol)), "x for ", symbol>>)
    ELSE Ok(Unit)

\* mutant: a limit order is valued at the quote too
effective_price_always_quoted(req, all_mids) ==
    get_market_price(req.symbol, all_mids)

\* the price validate_notional values the order at: the limit price, else
\* the quote of get_market_price
effective_price(req, all_mids) ==
    IF IsSome(req.limit_price)
    THEN Ok(Unwrap(req.limit_price))
    ELSE get_market_price(req.symbol, all_mids)

order_notional(qty, px) == qty * px

\* mutant: the order is compared with the other global limit
exceeds_per_order_limit_wrong_field(cfg, notional) ==
    notional > ToProductUnit(cfg.risk_limits.max_notional_per_symbol)

exceeds_per_order_limit(cfg, notional) ==
    notional > ToProductUnit(cfg.risk_limits.max_notional_per_order)

\* mutant: a notional equal to the symbol's limit is rejected
exceeds_symbol_limit_inclusive(cfg, symbol, notional) ==
    notional >= ToProductUnit(get_max_notional(cfg, symbol))

exceeds_symbol_limit(cfg, symbol, notional) ==
    notional > ToProductUnit(get_max_notional(cfg, symbol))

validate_notional(cfg, req, all_mids) ==
    LET px == effective_price(req, all_mids) IN
    IF ~px.ok THEN Err(px.error)
    ELSE
    LET notional == order_notional(req.qty, Unwrap(px.value)) IN
    IF exceeds_per_order_limit(cfg, notional)
    THEN Err(<<"Order notional $">> \o Fmt2(notional)
             \o <<" exceeds per-order limit $">>
             \o Fmt2(ToProductUnit(cfg.risk_limits.max_notional_per_order)))
    ELSE IF exceeds_symbol_limit(cfg, req.symbol, notional)
    THEN Err(<<"Order notional $">> \o Fmt2(notional)
             \o <<" exceeds symbol limit $">>
             \o Fmt2(ToProductUnit(get_max_notional(cfg, req.symbol)))
             \o <<" for ", req.symbol>>)
    ELSE Ok(Unit)

\* mutant: the notional checks run before the leverage check
validate_order_notional_first(cfg, req, all_mids) ==
    IF ~is_symbol_enabled(cfg, req.symbol)
    THEN Err(<<"Trading disabled for symbol: ", req.symbol>>)
    ELSE IF ~validate_notional(cfg, req, all_mids).ok
    THEN validate_notional(cfg, req, all_mids)
    ELSE validate_leverage(cfg, req.symbol, req.leverage)

validate_order(cfg, req, all_mids) ==
    IF ~is_symbol_enabled(cfg, req.symbol)
    THEN Err(<<"Trading disabled for symbol: ", req.symbol>>)
    ELSE IF ~validate_leverage(cfg, req.symbol, req.leverage).ok
    THEN validate_leverage(cfg, req.symbol, req.leverage)
    ELSE validate_notional(cfg, req, all_mids)

\* the network calls validate_order makes: the price query of
\* validate_notional, reached by a market order that passed the symbol and
\* leverage checks
validate_order_calls(cfg, req) ==
    IF /\ is_symbol_enabled(cfg, req.symbol)
       /\ validate_leverage(cfg, req.symbol, req.leverage).ok
       /\ ~IsSome(req.limit_price)
    THEN <<AllMidsCall>>
    ELSE <<>>

\* the local `price` of validate_notional, when validate_order gets there
resolved_price(cfg, req, all_mids) ==
    IF /\ is_symbol_enabled(cfg, req.symbol)
       /\ validate_leverage(cfg, req.symbol, req.leverage).ok
    THEN Some(effective_price(req, all_mids))
    ELSE None

\* ------------------------------------------------------------------------
\* Exchange responses (hyperliquid_rust_sdk)

NumberStrings == { <<"5", "0", "0", "0", "0", ".", "5">>, <<"?">> }

OrderIds == { 7, 9 }

ErrorTexts == { <<"Insufficient margin">> }

\* ExchangeDataStatus
ExchangeDataStatuses ==
    { [variant |-> "Success"], [variant |-> "WaitingForFill"] }
    \cup { [variant |-> "Error", msg |-> m] : m \in ErrorTexts }
    \cup { [variant |-> "Resting", oid |-> 7] }
    \cup { [variant |-> "Filled", oid |-> 9, total_sz |-> sz, avg_px |-> px] :
             sz \in NumberStrings, px \in NumberStrings }

\* statuses after the first one of a response
FurtherStatuses == { [variant |-> "Resting", oid |-> 7] }

RECURSIVE SeqsUpTo(_, _)
SeqsUpTo(S, n) ==
    IF n <= 0 THEN { <<>> }
    ELSE SeqsUpTo(S, n - 1)
         \cup { Append(q, x) : q \in SeqsUpTo(S, n - 1), x \in S }

StatusVectors ==
    { <<>> } \cup
    { <<first>> \o rest :
        first \in ExchangeDataStatuses,
        rest \in SeqsUpTo(FurtherStatuses, MaxStatuses - 1) }

\* Result<ExchangeResponseStatus>: the transport failed (Err), the exchange
\* answered with an error text (Ok(Err)), or answered Ok with optional data
TransportError == [transport |-> "err"]

ExchangeErr(text) == [transport |-> "ok", status |-> "err", error |-> text]

ExchangeOk(data) == [transport |-> "ok", status |-> "ok", data |-> data]

OrderOutcomes ==
    { TransportError }
    \cup { ExchangeErr(t) : t \in ErrorTexts }
    \cup { ExchangeOk(None) }
    \cup { ExchangeOk(Some([statuses |-> v])) : v \in StatusVectors }

LeverageOutcomes ==
    { TransportError, ExchangeOk(None) }
    \cup { ExchangeErr(t) : t \in ErrorTexts }

\* ------------------------------------------------------------------------
\* OrderResponse and OrderResult (types/trading.rs)

Success(order_id, filled_qty, avg_price) ==
    [type |-> "Success", order_id |-> order_id, filled_qty |-> filled_qty,
     avg_price |-> avg_price]

Error(message) == [type |-> "Error", message |-> message]

Resting(order_id) == [type |-> "Resting", order_id |-> order_id]

\* mutant: the response is stamped with the epoch, not with the time read
OrderResponse_unstamped(status, result, ts) ==
    [status |-> status, result |-> result, timestamp |-> 0]

OrderResponse(status, result, ts) ==
    [status |-> status, result |-> result, timestamp |-> ts]

\* parse().unwrap_or(0.0)
parse_or_zero(s) ==
    IF IsSome(ParseF64(s)) THEN Unwrap(ParseF64(s)) ELSE F64(0, 0)

\* the match on the first status of the response (trading.rs 71-91)
order_result(status) ==
    CASE status.variant = "Success" ->
           Success(0, F64(0, 0), None)
      [] status.variant = "Filled" ->
           Success(status.oid, parse_or_zero(status.total_sz),
                   Some(parse_or_zero(status.avg_px)))
      [] status.variant = "Resting" ->
           Resting(status.oid)
      [] status.variant = "Error" ->
           Error(status.msg)
      [] OTHER ->
           Error(<<"Unknown status">>)

\* mutant: the last status of the response is taken, not the first
normalize_last_status(result, ts) ==
    IF result.status = "ok"
    THEN IF IsSome(result.data) /\ Len(Unwrap(result.data).statuses) > 0
         THEN OrderResponse("success",
                            order_result(Unwrap(result.data).statuses[
                                Len(Unwrap(result.data).statuses)]), ts)
         ELSE OrderResponse("error", Error(<<"No response data">>), ts)
    ELSE OrderResponse("error", Error(result.error), ts)

\* the match on the ExchangeResponseStatus (trading.rs 67-114)
normalize(result, ts) ==
    IF result.status = "ok"
    THEN IF IsSome(result.data) /\ Len(Unwrap(result.data).statuses) > 0
         THEN OrderResponse("success",
                            order_result(Unwrap(result.data).statuses[1]), ts)
         ELSE OrderResponse("error", Error(<<"No response data">>), ts)
    ELSE OrderResponse("error", Error(result.error), ts)

\* ------------------------------------------------------------------------
\* Calls to the exchange

UpdateLeverageCall(leverage, symbol, reply) ==
    [call |-> "update_leverage", leverage |-> leverage, coin |-> symbol,
     is_cross |-> TRUE, reply |-> reply]

\* place_limit_order: ExchangeClient::order of a ClientOrderRequest
LimitOrderCall(req, reply) ==
    [call |-> "order", asset |-> req.symbol, is_buy |-> req.is_buy,
     reduce_only |-> req.reduce_only, limit_px |-> Unwrap(req.limit_price),
     sz |-> req.qty, tif |-> req.tif, reply |-> reply]

\* slippage Some(0.05), in percent
MarketSlippagePct == 5

\* mutant: a reduce-only market order is opened like any other
MarketOrderCall_always_open(req, reply) ==
    [call |-> "market_open", asset |-> req.symbol, is_buy |-> req.is_buy,
     sz |-> req.qty, slippage |-> Some(MarketSlippagePct), reply |-> reply]

\* place_market_order: market_close for a reduce-only order, else
\* market_open
MarketOrderCall(req, reply) ==
    IF req.reduce_only
    THEN [call |-> "market_close", asset |-> req.symbol, sz |-> Some(req.qty),
          slippage |-> Some(MarketSlippagePct), reply |-> reply]
    ELSE [call |-> "market_open", asset |-> req.symbol, is_buy |-> req.is_buy,
          sz |-> req.qty, slippage |-> Some(MarketSlippagePct),
          reply |-> reply]

SubmitCall(req, reply) ==
    IF IsSome(req.limit_price) THEN LimitOrderCall(req, reply)
    ELSE MarketOrderCall(req, reply)

SubmitErrorContext(req) ==
    IF IsSome(req.limit_price) THEN <<"Failed to place limit order">>
    ELSE IF req.reduce_only THEN <<"Failed to place market close order">>
    ELSE <<"Failed to place market order">>

\* mutant: an error text of the exchange passes for success
set_leverage_lenient(outcome) ==
    IF outcome.transport = "err" THEN Err(<<"transport error">>)
    ELSE Ok(Unit)

\* set_leverage: Ok only when the exchange answered Ok
set_leverage(outcome) ==
    IF outcome.transport = "err" THEN Err(<<"transport error">>)
    ELSE IF outcome.status = "err"
    THEN Err(<<"Failed to set leverage: ">> \o outcome.error)
    ELSE Ok(Unit)

\* cancel_order: ExchangeClient::cancel of a ClientCancelRequest
CancelCall(symbol, order_id, reply) ==
    [call |-> "cancel", asset |-> symbol, oid |-> order_id, reply |-> reply]

\* what the exchange can answer to a cancel; the data of an Ok answer can
\* itself hold the status of the cancel
CancelOutcomes ==
    { TransportError, ExchangeOk(None) }
    \cup { ExchangeErr(t) : t \in ErrorTexts }
    \cup { ExchangeOk(Some([statuses |-> <<st>>])) :
            st \in { [variant |-> "Success"] }
                   \cup { [variant |-> "Error", msg |-> m] : m \in ErrorTexts } }

\* mutant: an error text of the exchange is folded into a success
cancel_order_lenient(outcome) ==
    IF outcome.transport = "err" THEN Err(<<"transport error">>)
    ELSE Ok(Unit)

\* cancel_order: Ok only when the exchange answered Ok, whatever the data
cancel_order(outcome) ==
    IF outcome.transport = "err" THEN Err(<<"transport error">>)
    ELSE IF outcome.status = "err"
    THEN Err(<<"Cancel failed: ">> \o outcome.error)
    ELSE Ok(Unit)

\* ------------------------------------------------------------------------
\* place_order, one action per suspension point

NoReturn == [kind |-> "none"]

ReturnOk(response) == [kind |-> "Ok", response |-> response]

ReturnErr(error) == [kind |-> "Err", error |-> error]

NotValidated == [ok |-> TRUE, value |-> <<>>, error |-> <<>>]

NoCommand == <<>>

\* run_cli has not been entered
CliNotRunning ==
    /\ cli_pc = "none"
    /\ cli_command = NoCommand
    /\ trading_service = "absent"
    /\ cli_stderr = <<>>
    /\ cli_exit = None

\* stream_data has not been entered
NotStreaming ==
    /\ s_pc = "none"
    /\ duration = 0
    /\ clock_now = 0
    /\ last_ping = 0
    /\ message_count = 0
    /\ trade_count = 0
    /\ no_message_count = 0
    /\ subscription_confirmed = FALSE
    /\ frames_left = 0
    /\ sent = <<>>
    /\ closes = <<>>
    /\ printed = <<>>
    /\ exit_reason = None
    /\ stream_ret = NoReturn

Init ==
    /\ config \in Configs
    /\ pc = "idle"
    /\ order_request = NoRequest
    /\ timestamp = None
    /\ validation = NotValidated
    /\ price = None
    /\ net_calls = <<>>
    /\ ret = NoReturn
    /\ CliNotRunning
    /\ decisions = <<>>
    /\ NotStreaming

\* trading.rs 40-43: the call starts and reads the clock
place_order_entry(req, clock) ==
    /\ pc = "idle"
    /\ order_request' = req
    /\ validation' = NotValidated
    /\ price' = None
    /\ net_calls' = <<>>
    /\ IF IsSome(clock)
       THEN /\ timestamp' = clock
            /\ ret' = NoReturn
            /\ pc' = "validate"
       ELSE /\ timestamp' = None
            /\ ret' = ReturnErr(<<"second time provided was later than self">>)
            /\ pc' = "done"
    /\ UNCHANGED config

\* place_order called on the service directly (lib.rs exports it)
PlaceOrder(req, clock) ==
    /\ place_order_entry(req, clock)
    /\ UNCHANGED outside_trading

\* mutant: the error of validate_order does not end the call
ValidateOrderGoesOn(all_mids) ==
    /\ pc = "validate"
    /\ validation' = validate_order(config, order_request, all_mids)
    /\ price' = resolved_price(config, order_request, all_mids)
    /\ net_calls' = net_calls \o validate_order_calls(config, order_request)
    /\ pc' = "leverage"
    /\ UNCHANGED <<config, order_request, timestamp, ret>>
    /\ UNCHANGED outside_trading

\* trading.rs 45-54: validate_order, and the early return on its error
ValidateOrder(all_mids) ==
    /\ pc = "validate"
    /\ validation' = validate_order(config, order_request, all_mids)
    /\ price' = resolved_price(config, order_request, all_mids)
    /\ net_calls' = net_calls \o validate_order_calls(config, order_request)
    /\ IF validation'.ok
       THEN /\ pc' = "leverage"
            /\ ret' = ret
       ELSE /\ pc' = "done"
            /\ ret' = ReturnOk(OrderResponse("error", Error(validation'.error),
                                             Unwrap(timestamp)))
    /\ UNCHANGED <<config, order_request, timestamp>>
    /\ UNCHANGED outside_trading

\* trading.rs 56-59: the leverage update of an intent with a leverage
SetLeverage(outcome) ==
    /\ pc = "leverage"
    /\ IsSome(order_request.leverage)
    /\ net_calls' = Append(net_calls,
                           UpdateLeverageCall(Unwrap(order_request.leverage),
                                              order_request.symbol, outcome))
    /\ IF set_leverage(outcome).ok
       THEN /\ pc' = "submit"
            /\ ret' = ret
       ELSE /\ pc' = "done"
            /\ ret' = ReturnErr(set_leverage(outcome).error)
    /\ UNCHANGED <<config, order_request, timestamp, validation, price>>
    /\ UNCHANGED outside_trading

\* mutant: the submission does not wait for a leverage update
SkipLeverageWhateverTheIntent ==
    /\ pc = "leverage"
    /\ pc' = "submit"
    /\ UNCHANGED <<config, order_request, timestamp, validation, price, net_calls, ret>>
    /\ UNCHANGED outside_trading

\* trading.rs 57: an intent without a leverage goes on to the submission
SkipLeverage ==
    /\ pc = "leverage"
    /\ ~IsSome(order_request.leverage)
    /\ pc' = "submit"
    /\ UNCHANGED <<config, order_request, timestamp, validation, price, net_calls, ret>>
    /\ UNCHANGED outside_trading

\* mutant: an error response of the exchange is propagated like a transport
\* failure
SubmitOrderPropagates(outcome) ==
    /\ pc = "submit"
    /\ net_calls' = Append(net_calls, SubmitCall(order_request, outcome))
    /\ ret' = IF outcome.transport = "err"
              THEN ReturnErr(SubmitErrorContext(order_request))
              ELSE IF outcome.status = "err"
              THEN ReturnErr(outcome.error)
              ELSE ReturnOk(normalize(outcome, Unwrap(timestamp)))
    /\ pc' = "done"
    /\ UNCHANGED <<config, order_request, timestamp, validation, price>>
    /\ UNCHANGED outside_trading

\* mutant: an order the exchange answered with an error is submitted again
SubmitOrderRetries(outcome) ==
    /\ pc = "submit"
    /\ net_calls' = Append(net_calls, SubmitCall(order_request, outcome))
    /\ ret' = IF outcome.transport = "err"
              THEN ReturnErr(SubmitErrorContext(order_request))
              ELSE ReturnOk(normalize(outcome, Unwrap(timestamp)))
    /\ pc' = IF outcome.transport = "ok" /\ outcome.status = "err"
                 /\ \A i \in 1..Len(net_calls) :
                        net_calls[i].call = "update_leverage"
             THEN "submit"
             ELSE "done"
    /\ UNCHANGED <<config, order_request, timestamp, validation, price>>
    /\ UNCHANGED outside_trading

\* trading.rs 61-114: the submission and the normalized response
SubmitOrder(outcome) ==
    /\ pc = "submit"
    /\ net_calls' = Append(net_calls, SubmitCall(order_request, outcome))
    /\ ret' = IF outcome.transport = "err"
              THEN ReturnErr(SubmitErrorContext(order_request))
              ELSE ReturnOk(normalize(outcome, Unwrap(timestamp)))
    /\ pc' = "done"
    /\ UNCHANGED <<config, order_request, timestamp, validation, price>>
    /\ UNCHANGED outside_trading

\* the caller has the result; the service is ready for the next call
Return ==
    /\ pc = "done"
    /\ pc' = "idle"
    /\ order_request' = NoRequest
    /\ timestamp' = None
    /\ validation' = NotValidated
    /\ price' = None
    /\ net_calls' = <<>>
    /\ ret' = NoReturn
    /\ UNCHANGED config
    /\ UNCHANGED outside_trading

\* trading.rs 280-295: cancel_order, a single call to the exchange
CancelOrder(symbol, order_id, outcome) ==
    /\ pc = "idle"
    /\ net_calls' = <<CancelCall(symbol, order_id, outcome)>>
    /\ ret' = IF cancel_order(outcome).ok
              THEN ReturnOk(Unit)
              ELSE ReturnErr(cancel_order(outcome).error)
    /\ pc' = "cancelled"
    /\ UNCHANGED <<config, order_request, timestamp, validation, price>>
    /\ UNCHANGED outside_trading

\* the caller has the result of the cancel
ReturnFromCancel ==
    /\ pc = "cancelled"
    /\ pc' = "idle"
    /\ net_calls' = <<>>
    /\ ret' = NoReturn
    /\ UNCHANGED <<config, order_request, timestamp, validation, price>>
    /\ UNCHANGED outside_trading

Next ==
    \/ \E req \in OrderRequests, clock \in ClockReadings : PlaceOrder(req, clock)
    \/ \E all_mids \in AllMidsOutcomes : ValidateOrder(all_mids)
    \/ \E outcome \in LeverageOutcomes : SetLeverage(outcome)
    \/ SkipLeverage
    \/ \E outcome \in OrderOutcomes : SubmitOrder(outcome)
    \/ Return
    \/ \E symbol \in Symbols, order_id \in OrderIds, outcome \in CancelOutcomes :
            CancelOrder(symbol, order_id, outcome)
    \/ ReturnFromCancel

Spec == Init /\ [][Next]_vars

\* ------------------------------------------------------------------------
\* Vocabulary of the properties

\* validate_order has run in the current call
Validated == pc \in {"leverage", "submit", "done"} /\ IsSome(timestamp)

Rejected == Validated /\ ~validation.ok

Accepted == Validated /\ validation.ok

\* the price query of validate_notional failed: no quote to value the order
QuoteFailed == IsSome(price) /\ ~Unwrap(price).ok

\* rejected by a check of the risk policy: symbol, leverage or notional
PolicyRejected == Rejected /\ ~QuoteFailed

\* the message has the token
Contains(message, token) == \E i \in 1..Len(message) : message[i] = token

\* the symbol's entry of the limits map, an Option
ConfiguredLimits(symbol) ==
    IF symbol \in DOMAIN config.risk_limits.symbol_limits
    THEN Some(config.risk_limits.symbol_limits[symbol])
    ELSE None

\* the order's quantity times the price it is valued at, in hundredths, when
\* that price is known: the limit price, else the quote that was fetched
HasEffectivePrice ==
    \/ IsSome(order_request.limit_price)
    \/ IsSome(price) /\ Unwrap(price).ok

EffectivePrice ==
    IF IsSome(order_request.limit_price) THEN Unwrap(order_request.limit_price)
    ELSE Unwrap(Unwrap(price).value)

Notional == order_request.qty * EffectivePrice

\* the limits in force for the symbol: its entry, else the defaults
LimitsInForce(symbol) ==
    IF IsSome(ConfiguredLimits(symbol)) THEN Unwrap(ConfiguredLimits(symbol))
    ELSE [max_leverage |-> 10,
          max_notional |-> config.risk_limits.max_notional_per_symbol,
          enabled |-> TRUE]

\* the two notional ceilings, in hundredths
PerOrderCap == config.risk_limits.max_notional_per_order * 10

SymbolCap == LimitsInForce(order_request.symbol).max_notional * 10

LeverageOverMax ==
    /\ IsSome(order_request.leverage)
    /\ Unwrap(order_request.leverage) > LimitsInForce(order_request.symbol).max_leverage

\* the intent of the current call has these risk fields
IsOrder(symbol, qty, limit, leverage) ==
    /\ order_request.symbol = symbol
    /\ order_request.qty = qty
    /\ order_request.limit_price = Some(limit)
    /\ order_request.leverage = Some(leverage)

LeverageCalls == { i \in 1..Len(net_calls) : net_calls[i].call = "update_leverage" }

SubmitCalls ==
    { i \in 1..Len(net_calls) :
        net_calls[i].call \in {"order", "market_open", "market_close"} }

\* the reply to the order submission of the current call
Submitted == pc = "done" /\ SubmitCalls # {}

SubmitReply == net_calls[Len(net_calls)].reply

\* the reply to the leverage update of the current call
LeverageReply == net_calls[CHOOSE i \in LeverageCalls : TRUE].reply

CallFailed(reply) ==
    \/ reply.transport = "err"
    \/ reply.status = "err"

\* the exchange answered the submission Ok: the first status of its data,
\* an Option
AnsweredOk == Submitted /\ SubmitReply.transport = "ok" /\ SubmitReply.status = "ok"

FirstStatus ==
    IF IsSome(SubmitReply.data) /\ Unwrap(SubmitReply.data).statuses # <<>>
    THEN Some(Head(Unwrap(SubmitReply.data).statuses))
    ELSE None

FirstStatusIs(variant) == IsSome(FirstStatus) /\ Unwrap(FirstStatus).variant = variant

\* the limits of tests/unit_test.rs create_simple_risk_limits
TestLimits ==
    [s \in {"BTC", "ETH"} |->
        IF s = "BTC"
        THEN [max_leverage |-> 5,  max_notional |-> F64(50000, 0), enabled |-> TRUE]
        ELSE [max_leverage |-> 10, max_notional |-> F64(30000, 0), enabled |-> TRUE]]

\* ------------------------------------------------------------------------
\* C1: an order for a symbol configured with enabled = false is rejected by
\* validate_order, whatever its leverage, quantity, limit price or quote.
C1_DisabledSymbolRejected ==
    ( /\ Validated
      /\ IsSome(ConfiguredLimits(order_request.symbol))
      /\ ~Unwrap(ConfiguredLimits(order_request.symbol)).enabled )
    => /\ ~validation.ok
       /\ validation.error = <<"Trading disabled for symbol: ", order_request.symbol>>

\* a disabled symbol's order that every other check would let through
C1_Witness ==
    /\ Rejected
    /\ IsSome(ConfiguredLimits(order_request.symbol))
    /\ ~Unwrap(ConfiguredLimits(order_request.symbol)).enabled
    /\ order_request.leverage = Some(3)
    /\ order_request.limit_price = Some(F64(3000, 0))
    /\ order_request.qty = F64(0, 1)

\* ------------------------------------------------------------------------
\* C2 as stated: when validation rejects, place_order returns the error
\* outcome with the reason and the captured timestamp and has made no network
\* call of any kind, the price query included.
C2_NoNetworkCallOnRejection ==
    PolicyRejected =>
        /\ pc = "done"
        /\ ret = ReturnOk(OrderResponse("error", Error(validation.error),
                                        Unwrap(timestamp)))
        /\ net_calls = <<>>

\* C2 as amended: when validation rejects, place_order returns the error
\* outcome with the reason and the captured timestamp and has made no
\* leverage update and no order submission; the one call it can have made is
\* the price query of a market order that passed the symbol and leverage
\* checks.  A leverage update or an order submission is made only for an
\* intent that validation accepted.
C2_NoExchangeCallOnRejection ==
    /\ Rejected =>
        /\ pc = "done"
        /\ ret = ReturnOk(OrderResponse("error", Error(validation.error),
                                        Unwrap(timestamp)))
        /\ LeverageCalls = {}
        /\ SubmitCalls = {}
        /\ net_calls # <<>> =>
              /\ net_calls = <<AllMidsCall>>
              /\ order_request.limit_price = None
              /\ IsSome(price)
    /\ (LeverageCalls \cup SubmitCalls) # {} => Accepted

\* a market order rejected by the per-order ceiling after its quote was
\* fetched
C2_Witness ==
    /\ Rejected
    /\ pc = "done"
    /\ order_request.limit_price = None
    /\ net_calls = <<AllMidsCall>>
    /\ PolicyRejected
    /\ Notional > PerOrderCap
    /\ ret.response.timestamp = 1

\* ------------------------------------------------------------------------
\* C3 as stated: an order whose leverage is greater than the symbol's
\* max_leverage is rejected, and the reason has both the requested leverage
\* and the configured maximum.
C3_LeverageReasonHasBothValues ==
    (Validated /\ LeverageOverMax) =>
        /\ ~validation.ok
        /\ Contains(validation.error, FmtInt(Unwrap(order_request.leverage)))
        /\ Contains(validation.error,
                    FmtInt(LimitsInForce(order_request.symbol).max_leverage))

\* C3 as amended: an order whose leverage is greater than the symbol's
\* max_leverage is rejected; when the symbol is enabled the reason has both
\* the requested leverage and the configured maximum, and when it is disabled
\* the reason is that of the disabled symbol.
C3_LeverageReasonOfEnabledSymbol ==
    (Validated /\ LeverageOverMax) =>
        /\ ~validation.ok
        /\ LimitsInForce(order_request.symbol).enabled =>
             /\ Contains(validation.error, FmtInt(Unwrap(order_request.leverage)))
             /\ Contains(validation.error,
                         FmtInt(LimitsInForce(order_request.symbol).max_leverage))
        /\ ~LimitsInForce(order_request.symbol).enabled =>
             validation.error = <<"Trading disabled for symbol: ", order_request.symbol>>

\* BTC with leverage 10 over the maximum 5 (tests/unit_test.rs 65-77)
C3_Witness ==
    /\ Rejected
    /\ config.risk_limits.symbol_limits = TestLimits
    /\ IsOrder("BTC", F64(0, 1), F64(50000, 0), 10)
    /\ Contains(validation.error, "10")
    /\ Contains(validation.error, "5")

\* ------------------------------------------------------------------------
\* C4: an order whose quantity times effective price (the limit price, else
\* the live quote) is greater than max_notional_per_order is rejected, also
\* when the symbol's own max_notional is higher than the notional.
C4_PerOrderCeiling ==
    (Validated /\ HasEffectivePrice /\ Notional > PerOrderCap) =>
        /\ ~validation.ok
        /\ pc = "done"
        /\ ret.kind = "Ok"
        /\ ret.response.result.type = "Error"

\* BTC 1.0 @ 15000: over the per-order ceiling 10000, under BTC's 50000
\* (tests/unit_test.rs 79-91)
C4_Witness ==
    /\ Rejected
    /\ config.risk_limits.symbol_limits = TestLimits
    /\ IsOrder("BTC", F64(1, 0), F64(15000, 0), 3)
    /\ Notional > PerOrderCap
    /\ Notional < SymbolCap
    /\ Contains(validation.error, " exceeds per-order limit $")

\* ------------------------------------------------------------------------
\* C5: a limit order is accepted exactly when the symbol is enabled, the
\* leverage is unset or at most the symbol's max_leverage, and quantity times
\* limit price is at most max_notional_per_order and at most the symbol's
\* max_notional; with the limits of the unit tests the six orders of the
\* tests are accepted and rejected as the tests say.
C5_LimitOrderAcceptance ==
    /\ (Validated /\ IsSome(order_request.limit_price)) =>
          ( validation.ok <=>
              /\ LimitsInForce(order_request.symbol).enabled
              /\ ~LeverageOverMax
              /\ Notional <= PerOrderCap
              /\ Notional <= SymbolCap )
    /\ (Validated /\ config.risk_limits.symbol_limits = TestLimits) =>
          /\ IsOrder("BTC", F64(0, 1), F64(50000, 0), 3) => validation.ok
          /\ IsOrder("ETH", F64(2, 0), F64(3000, 0), 8) => validation.ok
          /\ IsOrder("BTC", F64(0, 1), F64(50000, 0), 10) => ~validation.ok
          /\ IsOrder("ETH", F64(2, 0), F64(3000, 0), 15) => ~validation.ok
          /\ (\E l \in Leverages : IsOrder("BTC", F64(1, 0), F64(15000, 0), l))
                => ~validation.ok
          /\ (\E l \in Leverages : IsOrder("ETH", F64(4, 0), F64(3000, 0), l))
                => ~validation.ok

\* an accepted limit order whose notional equals the symbol's max_notional
\* and whose leverage equals the symbol's max_leverage
C5_Witness ==
    /\ Accepted
    /\ IsSome(order_request.limit_price)
    /\ Notional = SymbolCap
    /\ Notional < PerOrderCap
    /\ order_request.leverage = Some(LimitsInForce(order_request.symbol).max_leverage)

\* ------------------------------------------------------------------------
\* C6: for a symbol without an entry in symbol_limits, is_symbol_enabled is
\* true, get_max_leverage is 10 and get_max_notional is
\* max_notional_per_symbol; for a symbol with an entry the three accessors
\* return the entry's fields.
C6_AccessorDefaults ==
    \A s \in Symbols :
        IF s \in DOMAIN config.risk_limits.symbol_limits
        THEN /\ is_symbol_enabled(config, s) =
                    config.risk_limits.symbol_limits[s].enabled
             /\ get_max_leverage(config, s) =
                    config.risk_limits.symbol_limits[s].max_leverage
             /\ get_max_notional(config, s) =
                    config.risk_limits.symbol_limits[s].max_notional
        ELSE /\ is_symbol_enabled(config, s) = TRUE
             /\ get_max_leverage(config, s) = 10
             /\ get_max_notional(config, s) =
                    config.risk_limits.max_notional_per_symbol

\* an order for a symbol without an entry, accepted with leverage 10, in a
\* configuration where the other symbol has an entry
C6_Witness ==
    /\ Accepted
    /\ order_request.symbol \notin DOMAIN config.risk_limits.symbol_limits
    /\ DOMAIN config.risk_limits.symbol_limits # {}
    /\ order_request.leverage = Some(10)
    /\ get_max_leverage(config, order_request.symbol) = 10
    /\ get_max_notional(config, order_request.symbol) = F64(25000, 0)

\* ------------------------------------------------------------------------
\* C7: place_order returns Err, never an OrderOutcome, for every transport
\* or protocol failure of the call: the reference price of a market order
\* could not be fetched or parsed, the leverage update failed, or the order
\* submission failed; only a policy rejection becomes a Rejected outcome.
C7_HardFailuresPropagate ==
    pc = "done" =>
        /\ QuoteFailed => ret.kind = "Err"
        /\ (LeverageCalls # {} /\ CallFailed(LeverageReply)) => ret.kind = "Err"
        /\ (Submitted /\ SubmitReply.transport = "err") => ret.kind = "Err"
        /\ (Rejected /\ ret.kind = "Ok") => PolicyRejected

\* ------------------------------------------------------------------------
\* C8: when the leverage update of an intent with a leverage is rejected by
\* the exchange or fails in transport, place_order returns Err, not a
\* Rejected outcome, and submits no order in that call.
C8_LeverageFailureIsHard ==
    (LeverageCalls # {} /\ CallFailed(LeverageReply)) =>
        /\ IsSome(order_request.leverage)
        /\ pc = "done"
        /\ ret.kind = "Err"
        /\ SubmitCalls = {}

\* the exchange answered the leverage update of an accepted order with an
\* error text
C8_Witness ==
    /\ pc = "done"
    /\ Accepted
    /\ LeverageCalls # {}
    /\ LeverageReply.transport = "ok"
    /\ LeverageReply.status = "err"
    /\ ret.kind = "Err"
    /\ Contains(ret.error, "Failed to set leverage: ")

\* ------------------------------------------------------------------------
\* C9 as stated: of an Ok response, a first status filled gives Success with
\* that order's id, filled quantity and average price, resting gives Resting
\* with the order id, and an error status, any other variant, or no status
\* or data gives Error; nothing else is mapped and no case raises.
C9_StatusMapping ==
    AnsweredOk =>
        /\ ret.kind = "Ok"
        /\ ret.response.timestamp = Unwrap(timestamp)
        /\ IF FirstStatusIs("Filled")
           THEN /\ ret.response.result.type = "Success"
                /\ ret.response.result.order_id = Unwrap(FirstStatus).oid
                /\ IsSome(ParseF64(Unwrap(FirstStatus).total_sz)) =>
                     Some(ret.response.result.filled_qty) =
                        ParseF64(Unwrap(FirstStatus).total_sz)
                /\ IsSome(ParseF64(Unwrap(FirstStatus).avg_px)) =>
                     ret.response.result.avg_price =
                        ParseF64(Unwrap(FirstStatus).avg_px)
           ELSE IF FirstStatusIs("Resting")
           THEN ret.response.result = Resting(Unwrap(FirstStatus).oid)
           ELSE /\ ret.response.result.type = "Error"
                /\ FirstStatusIs("Error") =>
                     ret.response.result.message = Unwrap(FirstStatus).msg

\* C9 as amended: as stated, and also a bare success status gives Success
\* with order id 0, filled quantity 0 and no average price; the filled
\* quantity and average price of a filled status are the parsed texts of the
\* response, 0 for a text that is not a number; the message is the status's
\* for an error status, "Unknown status" for another variant and
\* "No response data" without status or data.
C9_StatusMappingWithBareSuccess ==
    AnsweredOk =>
        /\ ret.kind = "Ok"
        /\ ret.response.timestamp = Unwrap(timestamp)
        /\ ret.response.result =
             IF FirstStatus = None
                THEN Error(<<"No response data">>)
             ELSE IF FirstStatusIs("Success")
                THEN Success(0, 0, None)
             ELSE IF FirstStatusIs("Filled")
                THEN Success(Unwrap(FirstStatus).oid,
                             IF IsSome(ParseF64(Unwrap(FirstStatus).total_sz))
                             THEN Unwrap(ParseF64(Unwrap(FirstStatus).total_sz))
                             ELSE 0,
                             IF IsSome(ParseF64(Unwrap(FirstStatus).avg_px))
                             THEN ParseF64(Unwrap(FirstStatus).avg_px)
                             ELSE Some(0))
             ELSE IF FirstStatusIs("Resting")
                THEN Resting(Unwrap(FirstStatus).oid)
             ELSE IF FirstStatusIs("Error")
                THEN Error(Unwrap(FirstStatus).msg)
             ELSE Error(<<"Unknown status">>)

\* a response whose first status is filled and whose second is resting
C9_Witness ==
    /\ AnsweredOk
    /\ FirstStatusIs("Filled")
    /\ Len(Unwrap(SubmitReply.data).statuses) = 2
    /\ ret.response.result = Success(9, F64(50000, 5), Some(F64(50000, 5)))

\* ------------------------------------------------------------------------
\* C10: when the order submission returns ExchangeResponseStatus::Err,
\* place_order returns Ok with status "error" and a Rejected result carrying
\* the error text; it does not propagate it.
C10_ExchangeErrorFolded ==
    (Submitted /\ SubmitReply.transport = "ok" /\ SubmitReply.status = "err") =>
        ret = ReturnOk(OrderResponse("error", Error(SubmitReply.error),
                                     Unwrap(timestamp)))

\* the exchange answered a market order with an error text
C10_Witness ==
    /\ Submitted
    /\ order_request.limit_price = None
    /\ SubmitReply.transport = "ok"
    /\ SubmitReply.status = "err"
    /\ ret.kind = "Ok"
    /\ ret.response.status = "error"
    /\ ret.response.result.message = <<"Insufficient margin">>

\* ------------------------------------------------------------------------
\* cancel_order has returned: the reply its one call got
Cancelled == pc = "cancelled" /\ Len(net_calls) = 1 /\ net_calls[1].call = "cancel"

CancelReply == net_calls[1].reply

\* C11: cancel_order returns success only when the exchange answered Ok;
\* an error response of the exchange and a transport failure both come back
\* as a propagated error, never as an Ok value carrying a rejection, while
\* place_order folds an error response of the exchange into an Ok value.
C11_CancelFailureIsHard ==
    /\ pc = "cancelled" => Cancelled
    /\ Cancelled =>
          /\ ret.kind \in {"Ok", "Err"}
          /\ ret.kind = "Ok" <=> ~CallFailed(CancelReply)
          /\ ret.kind = "Ok" => ret = ReturnOk(Unit)
          /\ (CancelReply.transport = "ok" /\ CancelReply.status = "err") =>
                ret = ReturnErr(<<"Cancel failed: ">> \o CancelReply.error)
    /\ (Submitted /\ SubmitReply.transport = "ok" /\ SubmitReply.status = "err") =>
          ret.kind = "Ok"

\* the exchange answered a cancel with an error text
C11_Witness ==
    /\ Cancelled
    /\ net_calls[1].oid = 7
    /\ CancelReply.transport = "ok"
    /\ CancelReply.status = "err"
    /\ ret = ReturnErr(<<"Cancel failed: ", "Insufficient margin">>)

\* ------------------------------------------------------------------------
\* C20: validation checks symbol-enabled, then the leverage, then the global
\* notional ceiling, then the symbol's notional ceiling, and reports the
\* first check that fails: a disabled symbol whatever else is wrong, else an
\* excessive leverage whatever the notional, else the per-order limit even
\* when the symbol's limit is exceeded too, else the symbol's limit.
C20_FirstFailingCheckReported ==
    Validated =>
        IF ~LimitsInForce(order_request.symbol).enabled
        THEN validation = Err(<<"Trading disabled for symbol: ",
                                order_request.symbol>>)
        ELSE IF LeverageOverMax
        THEN ~validation.ok /\ validation.error[1] = "Requested leverage "
        ELSE IF QuoteFailed
        THEN /\ ~validation.ok
             /\ validation.error \in { <<"Failed to fetch market prices">>,
                                       <<"Price not found for symbol: ",
                                         order_request.symbol>>,
                                       <<"Failed to parse market price">> }
        ELSE IF Notional > PerOrderCap
        THEN ~validation.ok /\ Contains(validation.error, " exceeds per-order limit $")
        ELSE IF Notional > SymbolCap
        THEN ~validation.ok /\ Contains(validation.error, " exceeds symbol limit $")
        ELSE validation.ok

\* a limit order over the leverage maximum and over both notional ceilings
\* is reported as a leverage rejection
C20_Witness ==
    /\ Rejected
    /\ LimitsInForce(order_request.symbol).enabled
    /\ LeverageOverMax
    /\ IsSome(order_request.limit_price)
    /\ Notional > PerOrderCap
    /\ Notional > SymbolCap
    /\ validation.error[1] = "Requested leverage "

\* ------------------------------------------------------------------------
\* validate_order evaluated repeatedly on one (config, intent) pair

InitPolicy ==
    /\ config \in Configs
    /\ pc = "policy"
    /\ order_request \in RiskRequests
    /\ timestamp = None
    /\ validation = NotValidated
    /\ price = None
    /\ net_calls = <<>>
    /\ ret = NoReturn
    /\ CliNotRunning
    /\ decisions = <<>>
    /\ NotStreaming

\* trading.rs 118-128: one evaluation, through &self and &OrderRequest; the
\* quote it valued the order at is kept with its decision
EvaluatePolicy(all_mids) ==
    /\ pc = "policy"
    /\ Len(decisions) < MaxEvaluations
    /\ decisions' = Append(decisions,
                           [quote |-> resolved_price(config, order_request, all_mids),
                            decision |-> validate_order(config, order_request, all_mids)])
    /\ net_calls' = net_calls \o validate_order_calls(config, order_request)
    /\ UNCHANGED <<config, pc, order_request, timestamp, validation, price, ret>>
    /\ UNCHANGED <<cli_vars, stream_vars>>

NextPolicy == \E all_mids \in AllMidsOutcomes : EvaluatePolicy(all_mids)

SpecPolicy == InitPolicy /\ [][NextPolicy]_vars

\* C19 as stated: two evaluations of the risk policy on the same (config,
\* intent) pair yield the same decision.
C19_SameDecisionEveryTime ==
    \A i, j \in 1..Len(decisions) : decisions[i].decision = decisions[j].decision

\* C19, amended: two evaluations on the same (config, intent) pair yield the
\* same decision when they value the order at the same price, which a limit
\* order always does; no evaluation changes the config or the intent.
C19_SameDecisionForSamePrice ==
    /\ [](\A i, j \in 1..Len(decisions) :
            \/ decisions[i].quote # decisions[j].quote
            \/ decisions[i].decision = decisions[j].decision)
    /\ [](IsSome(order_request.limit_price) =>
            \A i, j \in 1..Len(decisions) :
                decisions[i].decision = decisions[j].decision)
    /\ [][config' = config /\ order_request' = order_request]_vars

\* a market order evaluated twice with the same quote, rejected twice by
\* the per-order limit
C19_Witness ==
    /\ Len(decisions) = 2
    /\ order_request.limit_price = None
    /\ decisions[1].quote = Some(Ok(F64(50000, 0)))
    /\ decisions[2].quote = decisions[1].quote
    /\ ~decisions[1].decision.ok
    /\ decisions[2].decision = decisions[1].decision

\* ------------------------------------------------------------------------
\* run_cli, the buy and sell commands (cli.rs)

\* a slippage is an integer number of hundredths (0.1 is 10), a tick size an
\* integer number of tenths
Slippages == { -1, 0, 10, 11 }

TickSizes == { 0, 1 }

\* Commands::Buy and Commands::Sell as clap parses them
CliCommands ==
    [ command     : {"Buy", "Sell"},
      symbol      : {"BTC"},
      qty         : { F64(0, 1) },
      limit       : { None, Some(F64(3000, 0)) },
      leverage    : { None, Some(3) },
      reduce_only : BOOLEAN,
      tif         : Tifs,
      slippage    : {None} \cup { Some(x) : x \in Slippages },
      tick_size   : {None} \cup { Some(x) : x \in TickSizes } ]

\* RiskLimits::default()
DefaultRiskLimits ==
    [max_notional_per_order  |-> F64(10000, 0),
     max_notional_per_symbol |-> F64(25000, 0),
     symbol_limits           |->
        [symbol \in {"BTC", "ETH", "SOL", "ARB", "AVAX"} |->
            CASE symbol = "BTC" ->
                   [max_leverage |-> 10, max_notional |-> F64(50000, 0), enabled |-> TRUE]
              [] symbol = "ETH" ->
                   [max_leverage |-> 15, max_notional |-> F64(30000, 0), enabled |-> TRUE]
              [] symbol = "SOL" ->
                   [max_leverage |-> 20, max_notional |-> F64(20000, 0), enabled |-> TRUE]
              [] symbol = "ARB" ->
                   [max_leverage |-> 25, max_notional |-> F64(15000, 0), enabled |-> TRUE]
              [] symbol = "AVAX" ->
                   [max_leverage |-> 20, max_notional |-> F64(15000, 0), enabled |-> TRUE]]]

\* Config::load(): the limits are always the defaults
LoadedConfig == [risk_limits |-> DefaultRiskLimits]

\* the results of Config::load and of TradingService::new
LoadOutcomes == { Ok(Unit), Err(<<"PRIVATE_KEY must be set">>) }

NewServiceOutcomes ==
    { Ok(Unit), Err(<<"Failed to parse private key">>),
      Err(<<"Failed to create exchange client">>),
      Err(<<"Failed to create info client">>) }

SlippageMessage == <<"Error: Slippage must be between 0% and 10% (0.0 to 0.1)">>

TickSizeMessage == <<"Error: Tick size must be greater than 0">>

\* mutant: the slippage of a limit order is checked too
check_arguments_any_order(cmd) ==
    IF /\ IsSome(cmd.slippage)
       /\ (Unwrap(cmd.slippage) < 0 \/ Unwrap(cmd.slippage) > 10)
    THEN Err(SlippageMessage)
    ELSE IF IsSome(cmd.tick_size) /\ Unwrap(cmd.tick_size) <= 0
    THEN Err(TickSizeMessage)
    ELSE Ok(Unit)

\* cli.rs 95-109: the slippage of a market order, then the tick size
check_arguments(cmd) ==
    IF /\ ~IsSome(cmd.limit) /\ IsSome(cmd.slippage)
       /\ (Unwrap(cmd.slippage) < 0 \/ Unwrap(cmd.slippage) > 10)
    THEN Err(SlippageMessage)
    ELSE IF IsSome(cmd.tick_size) /\ Unwrap(cmd.tick_size) <= 0
    THEN Err(TickSizeMessage)
    ELSE Ok(Unit)

\* cli.rs 114-122: the OrderRequest of the command; slippage and tick_size
\* are not fields of it
request_of(cmd) ==
    [ symbol      |-> cmd.symbol,
      is_buy      |-> cmd.command = "Buy",
      qty         |-> cmd.qty,
      limit_price |-> cmd.limit,
      leverage    |-> cmd.leverage,
      reduce_only |-> cmd.reduce_only,
      tif         |-> cmd.tif ]

InitCli ==
    /\ config = LoadedConfig
    /\ pc = "idle"
    /\ order_request = NoRequest
    /\ timestamp = None
    /\ validation = NotValidated
    /\ price = None
    /\ net_calls = <<>>
    /\ ret = NoReturn
    /\ cli_pc = "load"
    /\ cli_command \in CliCommands
    /\ trading_service = "absent"
    /\ cli_stderr = <<>>
    /\ cli_exit = None
    /\ decisions = <<>>
    /\ NotStreaming

\* cli.rs 65: Config::load()?
LoadConfig(outcome) ==
    /\ cli_pc = "load"
    /\ IF outcome.ok
       THEN /\ cli_pc' = "new"
            /\ UNCHANGED <<cli_stderr, cli_exit>>
       ELSE /\ cli_pc' = "exited"
            /\ cli_stderr' = Append(cli_stderr, outcome.error)
            /\ cli_exit' = Some(1)
    /\ UNCHANGED <<cli_command, trading_service>>
    /\ UNCHANGED <<trading_vars, decisions, stream_vars>>

\* cli.rs 93, 135: TradingService::new(config).await?
NewTradingService(outcome) ==
    /\ cli_pc = "new"
    /\ IF outcome.ok
       THEN /\ cli_pc' = "check"
            /\ trading_service' = "constructed"
            /\ UNCHANGED <<cli_stderr, cli_exit>>
       ELSE /\ cli_pc' = "exited"
            /\ trading_service' = "absent"
            /\ cli_stderr' = Append(cli_stderr, outcome.error)
            /\ cli_exit' = Some(1)
    /\ UNCHANGED cli_command
    /\ UNCHANGED <<trading_vars, decisions, stream_vars>>

\* cli.rs 95-109, 137-151: the checks of slippage and tick size
CheckArguments ==
    /\ cli_pc = "check"
    /\ IF check_arguments(cli_command).ok
       THEN /\ cli_pc' = "place"
            /\ UNCHANGED <<cli_stderr, cli_exit>>
       ELSE /\ cli_pc' = "exited"
            /\ cli_stderr' = Append(cli_stderr, check_arguments(cli_command).error)
            /\ cli_exit' = Some(1)
    /\ UNCHANGED <<cli_command, trading_service>>
    /\ UNCHANGED <<trading_vars, decisions, stream_vars>>

\* cli.rs 114-124, 156-166: the request is built and place_order called
CliPlaceOrder(clock) ==
    /\ cli_pc = "place"
    /\ place_order_entry(request_of(cli_command), clock)
    /\ cli_pc' = "wait"
    /\ UNCHANGED <<cli_command, trading_service, cli_stderr, cli_exit>>
    /\ UNCHANGED <<decisions, stream_vars>>

\* cli.rs 124-132, 166-174, 192: the response is printed, or the error
\* printed and the process exits with 1
CliReport ==
    /\ cli_pc = "wait"
    /\ pc = "done"
    /\ cli_pc' = "exited"
    /\ IF ret.kind = "Ok"
       THEN /\ cli_exit' = Some(0)
            /\ cli_stderr' = cli_stderr
       ELSE /\ cli_exit' = Some(1)
            /\ cli_stderr' = Append(cli_stderr,
                    <<"Failed to place ">>
                    \o <<IF cli_command.command = "Buy" THEN "BUY" ELSE "SELL">>
                    \o <<" order: ">> \o ret.error)
    /\ UNCHANGED <<cli_command, trading_service>>
    /\ UNCHANGED <<trading_vars, decisions, stream_vars>>

NextCli ==
    \/ \E outcome \in LoadOutcomes : LoadConfig(outcome)
    \/ \E outcome \in NewServiceOutcomes : NewTradingService(outcome)
    \/ CheckArguments
    \/ \E clock \in ClockReadings : CliPlaceOrder(clock)
    \/ \E all_mids \in AllMidsOutcomes : ValidateOrder(all_mids)
    \/ \E outcome \in LeverageOutcomes : SetLeverage(outcome)
    \/ SkipLeverage
    \/ \E outcome \in OrderOutcomes : SubmitOrder(outcome)
    \/ CliReport

SpecCli == InitCli /\ [][NextCli]_vars

\* ------------------------------------------------------------------------
\* the submission of the current call, when there is one
TheSubmitCall == net_calls[CHOOSE i \in SubmitCalls : TRUE]

SlippageOutOfRange ==
    /\ IsSome(cli_command.slippage)
    /\ (Unwrap(cli_command.slippage) < 0 \/ Unwrap(cli_command.slippage) > 10)

TickSizeNotPositive ==
    IsSome(cli_command.tick_size) /\ Unwrap(cli_command.tick_size) <= 0

\* run_cli is past the construction of the service
PastConstruction == cli_pc \in {"check", "place", "wait", "exited"}

\* C18 as stated: such a command is rejected before the trading service is
\* constructed and before place_order is called, limit order or not.
C18_RejectedBeforeAnyServiceCall ==
    (cli_command # NoCommand /\ (SlippageOutOfRange \/ TickSizeNotPositive)) =>
        /\ trading_service = "absent"
        /\ pc = "idle"
        /\ net_calls = <<>>
        /\ cli_exit # Some(0)

\* C18, amended: a tick size not above 0, or for a market order a slippage
\* outside 0 to 0.10, is rejected with exit code 1 before place_order is
\* called and after the trading service has been constructed; the command
\* goes no further than the check.  The slippage of a limit order is not
\* checked: with a valid tick size the order is placed.
C18_RejectedBeforePlaceOrder ==
    /\ (cli_command # NoCommand
         /\ \/ TickSizeNotPositive
            \/ ~IsSome(cli_command.limit) /\ SlippageOutOfRange) =>
          /\ pc = "idle"
          /\ order_request = NoRequest
          /\ net_calls = <<>>
          /\ cli_pc \in {"load", "new", "check", "exited"}
          /\ cli_exit \in {None, Some(1)}
          /\ (cli_pc = "exited" /\ trading_service = "constructed") =>
                /\ Len(cli_stderr) = 1
                /\ cli_stderr[1] \in {SlippageMessage, TickSizeMessage}
                /\ cli_stderr[1] = SlippageMessage <=>
                      (~IsSome(cli_command.limit) /\ SlippageOutOfRange)
    /\ (cli_command # NoCommand /\ PastConstruction
         /\ trading_service = "constructed"
         /\ IsSome(cli_command.limit) /\ ~TickSizeNotPositive) =>
          /\ cli_stderr \notin {<<SlippageMessage>>, <<TickSizeMessage>>}
          /\ cli_pc = "exited" => pc = "done"

\* a market buy with --slippage 0.11 exited with 1 at the check, the
\* service constructed and place_order never called
C18_Witness ==
    /\ cli_pc = "exited"
    /\ cli_command.command = "Buy"
    /\ cli_command.limit = None
    /\ cli_command.slippage = Some(11)
    /\ cli_command.tick_size = None
    /\ trading_service = "constructed"
    /\ cli_stderr = <<SlippageMessage>>
    /\ cli_exit = Some(1)
    /\ pc = "idle"

\* ------------------------------------------------------------------------
\* StreamingService::stream_data (services/streaming.rs)
\*
\* Time is counted in tenths of a second, the length of one receive timeout.

TicksPerSecond == 10

\* Duration::from_millis(100), in tenths of a second
PollTimeout == 1

\* Duration::from_secs(30), in tenths of a second
PingInterval == 30 * TicksPerSecond

max_no_message_cycles == 100

ProgressCycles == 50

\* TradeData: the fields serde needs to find in a record
TradeFields == {"coin", "side", "px", "sz", "time", "hash", "tid", "users"}

TradeRecord(tid) ==
    [coin |-> "BTC", side |-> "B", px |-> "50000.0", sz |-> "0.1", time |-> 0,
     hash |-> "0x0", tid |-> tid, users |-> <<"a", "b">>]

\* a record of a trades frame without its tid
BrokenRecord == [coin |-> "BTC", side |-> "B", px |-> "50000.0", sz |-> "0.1"]

\* the data arrays a trades frame carries
TradeArrays ==
    { <<>>, <<TradeRecord(1)>>, <<TradeRecord(1), TradeRecord(2)>>,
      <<TradeRecord(1), BrokenRecord>> }

\* a text frame is its text parsed as JSON, None when it is not JSON; the
\* parsed value has an optional channel string and an optional data array
TextFrame(json) == [type |-> "Text", json |-> json]

Json(channel, data) == [channel |-> channel, data |-> data]

TextFrames ==
    { TextFrame(None) }
    \cup { TextFrame(Some(Json(ch, None))) :
             ch \in { None, Some("subscriptionResponse"), Some("pong"),
                      Some("trades"), Some("error") } }
    \cup { TextFrame(Some(Json(Some("trades"), Some(a)))) : a \in TradeArrays }

\* the frames of tungstenite's Message
Frames == TextFrames \cup { [type |-> "Pong"], [type |-> "Ping"], [type |-> "Close"] }

\* what tokio::time::timeout(.., ws_receiver.next()) resolves to
Timeout == [poll |-> "timeout"]

StreamError == [poll |-> "error"]

StreamEnded == [poll |-> "ended"]

Received(frame) == [poll |-> "frame", frame |-> frame]

PollOutcomes ==
    { Timeout, StreamError, StreamEnded } \cup { Received(f) : f \in Frames }

\* ws_msg.get("channel").and_then(|c| c.as_str()) of a text frame that
\* parsed
channel_of(frame) ==
    IF frame.type = "Text" /\ IsSome(frame.json)
    THEN Unwrap(frame.json).channel
    ELSE None

\* serde_json::from_value::<TradesResponse>: the data array, when it is
\* there and every record of it has the fields of TradeData
parse_trades(json) ==
    IF /\ IsSome(json.data)
       /\ \A i \in 1..Len(Unwrap(json.data)) :
             TradeFields \subseteq DOMAIN Unwrap(json.data)[i]
    THEN Some(Unwrap(json.data))
    ELSE None

\* mutant: a trades frame counts as one trade, its first
trades_of_first_only(frame) ==
    IF /\ channel_of(frame) = Some("trades")
       /\ IsSome(parse_trades(Unwrap(frame.json)))
       /\ Len(Unwrap(parse_trades(Unwrap(frame.json)))) > 0
    THEN <<Unwrap(parse_trades(Unwrap(frame.json)))[1]>>
    ELSE <<>>

\* streaming.rs 95-102: the trades the loop body goes through for a frame
trades_of(frame) ==
    IF /\ channel_of(frame) = Some("trades")
       /\ IsSome(parse_trades(Unwrap(frame.json)))
    THEN Unwrap(parse_trades(Unwrap(frame.json)))
    ELSE <<>>

\* mutant: a subscriptionResponse flips the flag back
confirmed_after_toggling(flag, frame) ==
    IF channel_of(frame) = Some("subscriptionResponse") THEN ~flag ELSE flag

\* mutant: any frame with a channel tag confirms the subscription
confirmed_after_any_channel(flag, frame) ==
    IF IsSome(channel_of(frame)) THEN TRUE ELSE flag

\* streaming.rs 85-89: the flag after a frame
confirmed_after(flag, frame) ==
    IF channel_of(frame) = Some("subscriptionResponse") THEN TRUE ELSE flag

\* the lines written to the terminal
ConfirmedLine == [line |-> "Subscription confirmed"]

TradeLine(trade) == [line |-> "trade", tid |-> trade.tid]

ProgressLine(remaining) == [line |-> "Waiting for trades", remaining |-> remaining]

QuietLine == [line |-> "No trades received for 10+ seconds"]

ExitLine(reason) == [line |-> "exit", reason |-> reason]

SummaryLine(messages, trades) ==
    [line |-> "Stream completed", messages |-> messages, trades |-> trades,
     hints |-> (trades = 0)]

RECURSIVE TradeLines(_)
TradeLines(trades) ==
    IF trades = <<>> THEN <<>>
    ELSE <<TradeLine(Head(trades))>> \o TradeLines(Tail(trades))

\* the messages given to ws_sender.send, with the result of the send
SentMessage(method, ok) == [method |-> method, ok |-> ok]

\* ------------------------------------------------------------------------
\* stream_data, one action per suspension point

\* a session of d seconds in which the remote delivers at most n events
StreamSession(d, n) ==
    /\ config = LoadedConfig
    /\ pc = "idle"
    /\ order_request = NoRequest
    /\ timestamp = None
    /\ validation = NotValidated
    /\ price = None
    /\ net_calls = <<>>
    /\ ret = NoReturn
    /\ CliNotRunning
    /\ decisions = <<>>
    /\ s_pc = "connect"
    /\ duration = d
    /\ clock_now = 0
    /\ last_ping = 0
    /\ message_count = 0
    /\ trade_count = 0
    /\ no_message_count = 0
    /\ subscription_confirmed = FALSE
    /\ frames_left = n
    /\ sent = <<>>
    /\ closes = <<>>
    /\ printed = <<>>
    /\ exit_reason = None
    /\ stream_ret = NoReturn

\* a session of one second
InitStream == StreamSession(1, MaxFrames)

\* a session longer than the ping interval, with at most one event
InitStreamLong == \E n \in {0, 1} : StreamSession(31, n)

\* streaming.rs 24-26: connect_async(..).await.context(..)?
Connect(ok) ==
    /\ s_pc = "connect"
    /\ IF ok
       THEN /\ s_pc' = "subscribe"
            /\ stream_ret' = stream_ret
       ELSE /\ s_pc' = "failed"
            /\ stream_ret' = ReturnErr(<<"Failed to connect to WebSocket">>)
    /\ UNCHANGED <<duration, clock_now, last_ping, message_count, trade_count,
                   no_message_count, subscription_confirmed, frames_left, sent,
                   closes, printed, exit_reason>>
    /\ UNCHANGED <<trading_vars, cli_vars, decisions>>

\* mutant: the loop is entered with no subscribe message sent
SubscribeNotSent(ok) ==
    /\ s_pc = "subscribe"
    /\ s_pc' = "loop"
    /\ clock_now' = 0
    /\ last_ping' = 0
    /\ message_count' = 0
    /\ trade_count' = 0
    /\ subscription_confirmed' = FALSE
    /\ no_message_count' = 0
    /\ UNCHANGED <<duration, frames_left, sent, closes, printed, exit_reason,
                   stream_ret>>
    /\ UNCHANGED <<trading_vars, cli_vars, decisions>>

\* streaming.rs 41-59: the subscribe message is sent, then start_time and
\* last_ping are taken and the counters set
Subscribe(ok) ==
    /\ s_pc = "subscribe"
    /\ sent' = Append(sent, SentMessage("subscribe", ok))
    /\ IF ok
       THEN /\ s_pc' = "loop"
            /\ stream_ret' = stream_ret
       ELSE /\ s_pc' = "failed"
            /\ stream_ret' = ReturnErr(<<"Failed to send subscription">>)
    /\ clock_now' = 0
    /\ last_ping' = 0
    /\ message_count' = 0
    /\ trade_count' = 0
    /\ subscription_confirmed' = FALSE
    /\ no_message_count' = 0
    /\ UNCHANGED <<duration, frames_left, closes, printed, exit_reason>>
    /\ UNCHANGED <<trading_vars, cli_vars, decisions>>

\* streaming.rs 62-65: the duration check that leaves the loop
DurationReached ==
    /\ s_pc = "loop"
    /\ clock_now \div TicksPerSecond >= duration
    /\ printed' = Append(printed, ExitLine("duration"))
    /\ exit_reason' = Some("duration")
    /\ s_pc' = "unsubscribe"
    /\ UNCHANGED <<duration, clock_now, last_ping, message_count, trade_count,
                   no_message_count, subscription_confirmed, frames_left, sent,
                   closes, stream_ret>>
    /\ UNCHANGED <<trading_vars, cli_vars, decisions>>

\* streaming.rs 125-135: what a receive timeout prints, given the new idle
\* count and the time
timeout_lines(confirmed, idle, seconds, total) ==
    (IF confirmed /\ idle % ProgressCycles = 0
     THEN <<ProgressLine(IF total > seconds THEN total - seconds ELSE 0)>>
     ELSE <<>>)
    \o (IF idle = max_no_message_cycles THEN <<QuietLine>> ELSE <<>>)

\* streaming.rs 83-112: what a frame prints
frame_lines(frame) ==
    IF frame.type = "Close" THEN <<ExitLine("close")>>
    ELSE (IF channel_of(frame) = Some("subscriptionResponse")
          THEN <<ConfirmedLine>> ELSE <<>>)
         \o TradeLines(trades_of(frame))

\* mutant: a close frame is handled like a pong, the loop goes on
loop_exit_ignoring_close(outcome) ==
    IF outcome.poll = "error" THEN Some("error")
    ELSE IF outcome.poll = "ended" THEN Some("ended")
    ELSE None

\* streaming.rs 107-121: the branch of the match that leaves the loop
loop_exit(outcome) ==
    IF outcome.poll = "error" THEN Some("error")
    ELSE IF outcome.poll = "ended" THEN Some("ended")
    ELSE IF outcome.poll = "frame" /\ outcome.frame.type = "Close" THEN Some("close")
    ELSE None

\* mutant: a ping is sent in every iteration
heartbeat_due_always(elapsed) == TRUE

\* streaming.rs 67: last_ping.elapsed() >= ping_interval
heartbeat_due(elapsed) == elapsed >= PingInterval

\* streaming.rs 62-137: one iteration that passes the duration check: the
\* ping when one is due, whose send takes ping_delay, then the receive with
\* its timeout and the handling of what it resolved to
Iterate(ping_ok, ping_delay, outcome) ==
    LET ping_due == heartbeat_due(clock_now - last_ping)
        after_ping == IF ping_due THEN clock_now + ping_delay ELSE clock_now
    IN
    /\ s_pc = "loop"
    /\ clock_now \div TicksPerSecond < duration
    /\ ~ping_due => (ping_ok /\ ping_delay = 0)
    /\ outcome.poll # "timeout" => frames_left > 0
    /\ sent' = IF ping_due THEN Append(sent, SentMessage("ping", ping_ok)) ELSE sent
    /\ last_ping' = IF ping_due THEN after_ping ELSE last_ping
    /\ exit_reason' = loop_exit(outcome)
    /\ s_pc' = IF IsSome(loop_exit(outcome)) THEN "unsubscribe" ELSE "loop"
    /\ IF outcome.poll = "timeout"
       THEN /\ clock_now' = after_ping + PollTimeout
            /\ no_message_count' = no_message_count + 1
            /\ printed' = printed \o timeout_lines(subscription_confirmed,
                                                    no_message_count',
                                                    clock_now' \div TicksPerSecond,
                                                    duration)
            /\ UNCHANGED <<message_count, trade_count, subscription_confirmed,
                           frames_left>>
       ELSE IF outcome.poll = "frame"
       THEN /\ clock_now' = after_ping
            /\ message_count' = message_count + 1
            /\ no_message_count' = 0
            /\ frames_left' = frames_left - 1
            /\ subscription_confirmed' =
                    confirmed_after(subscription_confirmed, outcome.frame)
            /\ trade_count' = trade_count + Len(trades_of(outcome.frame))
            /\ printed' = printed \o frame_lines(outcome.frame)
       ELSE /\ clock_now' = after_ping
            /\ frames_left' = frames_left - 1
            /\ printed' = Append(printed, ExitLine(outcome.poll))
            /\ UNCHANGED <<message_count, trade_count, no_message_count,
                           subscription_confirmed>>
    /\ UNCHANGED <<duration, closes, stream_ret>>
    /\ UNCHANGED <<trading_vars, cli_vars, decisions>>

\* mutant: a failed send of unsubscribe ends stream_data with the error
UnsubscribeFailureEnds(ok) ==
    /\ s_pc = "unsubscribe"
    /\ sent' = Append(sent, SentMessage("unsubscribe", ok))
    /\ IF ok
       THEN /\ s_pc' = "close"
            /\ stream_ret' = stream_ret
       ELSE /\ s_pc' = "returned"
            /\ stream_ret' = ReturnErr(<<"Failed to send unsubscribe">>)
    /\ UNCHANGED <<duration, clock_now, last_ping, message_count, trade_count,
                   no_message_count, subscription_confirmed, frames_left,
                   closes, printed, exit_reason>>
    /\ UNCHANGED <<trading_vars, cli_vars, decisions>>

\* streaming.rs 140-150: the unsubscribe message is sent, its result dropped
Unsubscribe(ok) ==
    /\ s_pc = "unsubscribe"
    /\ sent' = Append(sent, SentMessage("unsubscribe", ok))
    /\ s_pc' = "close"
    /\ UNCHANGED <<duration, clock_now, last_ping, message_count, trade_count,
                   no_message_count, subscription_confirmed, frames_left,
                   closes, printed, exit_reason, stream_ret>>
    /\ UNCHANGED <<trading_vars, cli_vars, decisions>>

\* mutant: a session the transport ended returns the error, without summary
CloseAndSummarizeEscalates(ok) ==
    /\ s_pc = "close"
    /\ closes' = Append(closes, ok)
    /\ IF exit_reason = Some("error")
       THEN /\ printed' = printed
            /\ stream_ret' = ReturnErr(<<"WebSocket error">>)
       ELSE /\ printed' = Append(printed, SummaryLine(message_count, trade_count))
            /\ stream_ret' = ReturnOk(Unit)
    /\ s_pc' = "returned"
    /\ UNCHANGED <<duration, clock_now, last_ping, message_count, trade_count,
                   no_message_count, subscription_confirmed, frames_left, sent,
                   exit_reason>>
    /\ UNCHANGED <<trading_vars, cli_vars, decisions>>

\* streaming.rs 152-167: the socket is closed, its result dropped, the
\* summary printed and Ok(()) returned
CloseAndSummarize(ok) ==
    /\ s_pc = "close"
    /\ closes' = Append(closes, ok)
    /\ printed' = Append(printed, SummaryLine(message_count, trade_count))
    /\ stream_ret' = ReturnOk(Unit)
    /\ s_pc' = "returned"
    /\ UNCHANGED <<duration, clock_now, last_ping, message_count, trade_count,
                   no_message_count, subscription_confirmed, frames_left, sent,
                   exit_reason>>
    /\ UNCHANGED <<trading_vars, cli_vars, decisions>>

NextStream ==
    \/ \E ok \in BOOLEAN : Connect(ok)
    \/ \E ok \in BOOLEAN : Subscribe(ok)
    \/ DurationReached
    \/ \E ping_ok \in BOOLEAN, ping_delay \in 0..MaxSendDelay,
          outcome \in PollOutcomes : Iterate(ping_ok, ping_delay, outcome)
    \/ \E ok \in BOOLEAN : Unsubscribe(ok)
    \/ \E ok \in BOOLEAN : CloseAndSummarize(ok)

SpecStream == InitStream /\ [][NextStream]_vars

SpecStreamLong == InitStreamLong /\ [][NextStream]_vars

\* ------------------------------------------------------------------------
\* Vocabulary of the stream properties

Sent(method) == { i \in 1..Len(sent) : sent[i].method = method }

Printed(line) == { i \in 1..Len(printed) : printed[i].line = line }

\* the receive loop has been left
LoopLeft == s_pc \in {"unsubscribe", "close", "returned"}

\* ------------------------------------------------------------------------
\* C13: once the receive loop has been left, whichever way, the cleanup runs
\* in one order and each step once: the unsubscribe is sent, then the socket
\* closed, then the summary printed and stream_data returns; a failed send
\* of unsubscribe or a failed close skips nothing.  No step runs before the
\* loop is left.
C13_CleanupRunsOnce ==
    /\ IsSome(exit_reason) <=> LoopLeft
    /\ LoopLeft => Unwrap(exit_reason) \in {"duration", "close", "error", "ended"}
    /\ s_pc \in {"connect", "subscribe", "loop", "failed", "unsubscribe"} =>
          /\ Sent("unsubscribe") = {}
          /\ closes = <<>>
          /\ Printed("Stream completed") = {}
    /\ s_pc = "close" =>
          /\ Sent("unsubscribe") = {Len(sent)}
          /\ closes = <<>>
          /\ Printed("Stream completed") = {}
    /\ s_pc = "returned" =>
          /\ Sent("unsubscribe") = {Len(sent)}
          /\ Len(closes) = 1
          /\ Printed("Stream completed") = {Len(printed)}
          /\ printed[Len(printed)].messages = message_count
          /\ printed[Len(printed)].trades = trade_count

\* a session the transport ended, whose unsubscribe and close both failed,
\* printed its summary and returned
C13_Witness ==
    /\ s_pc = "returned"
    /\ exit_reason = Some("error")
    /\ sent[Len(sent)] = [method |-> "unsubscribe", ok |-> FALSE]
    /\ closes = <<FALSE>>
    /\ printed[Len(printed)].line = "Stream completed"

\* ------------------------------------------------------------------------
\* C14 as stated: no iteration of the receive loop takes longer than the
\* receive timeout from one duration check to the next, ping due or not, so
\* a session that ends on its duration ends within one timeout of it.
C14_TimeoutBoundsEveryIteration ==
    /\ [][(s_pc = "loop" /\ s_pc' = "loop") =>
            clock_now' - clock_now <= PollTimeout]_vars
    /\ [](exit_reason = Some("duration") =>
            clock_now <= duration * TicksPerSecond + PollTimeout)

\* ------------------------------------------------------------------------
\* the trades frames whose records all deserialize
WholeTradeArrays ==
    { <<>>, <<TradeRecord(1)>>, <<TradeRecord(1), TradeRecord(2)>> }

\* C15: a text frame of channel "trades" whose data holds N trade records
\* adds exactly N to the trade counter and prints each record once, in the
\* order of the frame, whether or not the subscription has been confirmed;
\* it leaves the confirmed flag alone.
C15_EveryTradeCountedAndPrinted ==
    [][\A ping_ok \in BOOLEAN, ping_delay \in 0..MaxSendDelay, a \in WholeTradeArrays :
         Iterate(ping_ok, ping_delay,
                 Received(TextFrame(Some(Json(Some("trades"), Some(a)))))) =>
            /\ trade_count' = trade_count + Len(a)
            /\ message_count' = message_count + 1
            /\ Len(printed') = Len(printed) + Len(a)
            /\ \A i \in 1..Len(printed) : printed'[i] = printed[i]
            /\ \A i \in 1..Len(a) :
                  printed'[Len(printed) + i] = [line |-> "trade", tid |-> a[i].tid]
            /\ subscription_confirmed' = subscription_confirmed]_vars

\* one trade before the confirmation and two after it: three counted, three
\* printed in order
C15_Witness ==
    /\ s_pc = "loop"
    /\ message_count = 3
    /\ trade_count = 3
    /\ subscription_confirmed
    /\ printed = << [line |-> "trade", tid |-> 1],
                    [line |-> "Subscription confirmed"],
                    [line |-> "trade", tid |-> 1],
                    [line |-> "trade", tid |-> 2] >>

\* ------------------------------------------------------------------------
\* C16: the confirmed flag is false until the first subscriptionResponse
\* frame, which comes after the subscribe was sent, sets it; it is never
\* false again, later subscriptionResponse frames leave it true, and no
\* subscriptionResponse frame changes the trade counter.
C16_ConfirmedOnceNeverATrade ==
    /\ [][subscription_confirmed => subscription_confirmed']_vars
    /\ [][\A ping_ok \in BOOLEAN, ping_delay \in 0..MaxSendDelay :
            Iterate(ping_ok, ping_delay,
                    Received(TextFrame(Some(Json(Some("subscriptionResponse"), None))))) =>
               /\ subscription_confirmed'
               /\ trade_count' = trade_count
               /\ printed' = Append(printed, [line |-> "Subscription confirmed"])]_vars
    /\ [](subscription_confirmed <=> Printed("Subscription confirmed") # {})
    /\ [](subscription_confirmed =>
            (sent # <<>> /\ sent[1] = [method |-> "subscribe", ok |-> TRUE]))

\* two subscriptionResponse frames: the flag is set and no trade counted
C16_Witness ==
    /\ s_pc = "loop"
    /\ subscription_confirmed
    /\ message_count = 2
    /\ trade_count = 0
    /\ printed = << [line |-> "Subscription confirmed"],
                    [line |-> "Subscription confirmed"] >>

\* ------------------------------------------------------------------------
\* C17: a transport error, a close frame or the end of the stream ends the
\* receive loop before the duration is reached and is no failure: the
\* session goes through the cleanup, prints its summary and returns Ok.
\* stream_data returns an error only when the connection or the subscribe
\* failed, before the loop.
C17_EarlyEndIsNoFailure ==
    /\ (IsSome(exit_reason) /\ Unwrap(exit_reason) \in {"error", "close", "ended"}) =>
          /\ LoopLeft
          /\ clock_now \div TicksPerSecond < duration
          /\ stream_ret \in {NoReturn, ReturnOk(Unit)}
    /\ Printed("exit") # {} => LoopLeft
    /\ s_pc = "returned" =>
          /\ stream_ret = ReturnOk(Unit)
          /\ printed[Len(printed)].line = "Stream completed"
    /\ stream_ret.kind = "Err" => (s_pc = "failed" /\ exit_reason = None)

\* a session the stream's end cut short returned Ok after its summary
C17_Witness ==
    /\ s_pc = "returned"
    /\ exit_reason = Some("ended")
    /\ clock_now < duration * TicksPerSecond
    /\ stream_ret = ReturnOk(Unit)
    /\ printed[Len(printed)].line = "Stream completed"

\* ------------------------------------------------------------------------
\* C21: within one place_order call a leverage update is issued, once, if
\* and only if the intent has a leverage and validation passed; the order is
\* submitted only after that update was answered Ok, never before it and
\* never after it failed.
C21_LeverageSetBeforeSubmission ==
    /\ LeverageCalls # {} =>
          /\ Cardinality(LeverageCalls) = 1
          /\ IsSome(order_request.leverage)
          /\ Accepted
          /\ net_calls[CHOOSE i \in LeverageCalls : TRUE].leverage
                = Unwrap(order_request.leverage)
    /\ (Accepted /\ IsSome(order_request.leverage)
         /\ (pc = "submit" \/ pc = "done")) => LeverageCalls # {}
    /\ (pc = "submit" /\ IsSome(order_request.leverage)) =>
          /\ LeverageCalls = {Len(net_calls)}
          /\ ~CallFailed(LeverageReply)
    /\ (SubmitCalls # {} /\ IsSome(order_request.leverage)) =>
          /\ LeverageCalls # {}
          /\ ~CallFailed(LeverageReply)
          /\ \A i \in LeverageCalls, j \in SubmitCalls : i < j
    /\ (LeverageCalls # {} /\ CallFailed(LeverageReply)) => SubmitCalls = {}

\* an order with leverage 3 was submitted after its leverage update
C21_Witness ==
    /\ Submitted
    /\ order_request.leverage = Some(3)
    /\ Len(net_calls) = 2
    /\ net_calls[1].call = "update_leverage"
    /\ net_calls[1].leverage = 3
    /\ ~CallFailed(net_calls[1].reply)
    /\ net_calls[2].call = "order"

\* the pcs of a place_order call in progress or just finished
InPlaceOrder == pc \in {"validate", "leverage", "submit", "done"}

\* C22: place_order reads the clock once, before validation: the time is
\* there before any check ran or any call was made and it does not change
\* until the call returns; every OrderResponse returned carries that time,
\* whether it reports a risk rejection, a fill, a resting order, an embedded
\* error status, missing response data or an error response of the exchange.
C22_OneTimestampInEveryOutcome ==
    /\ [](/\ pc \in {"validate", "leverage", "submit"} => IsSome(timestamp)
          /\ (InPlaceOrder /\ (LeverageCalls # {} \/ SubmitCalls # {}
                                 \/ IsSome(price) \/ ~validation.ok))
               => IsSome(timestamp)
          /\ (InPlaceOrder /\ ret.kind = "Ok") =>
               /\ IsSome(timestamp)
               /\ ret.response.timestamp = Unwrap(timestamp))
    /\ [][(IsSome(timestamp) /\ pc' # "idle") => timestamp' = timestamp]_vars

\* at time 1 an order was refused by the exchange with an error response, and
\* the outcome is stamped 1
C22_Witness ==
    /\ Submitted
    /\ timestamp = Some(1)
    /\ SubmitReply.transport = "ok"
    /\ SubmitReply.status = "err"
    /\ ret.kind = "Ok"
    /\ ret.response.status = "error"
    /\ ret.response.timestamp = 1

\* C28: in every OrderResponse returned by place_order the status is "error"
\* exactly when the result is an Error, and "success" exactly when the result
\* is a Success or a Resting.
C28_StatusAgreesWithResult ==
    (InPlaceOrder /\ ret.kind = "Ok") =>
        /\ ret.response.status \in {"error", "success"}
        /\ ret.response.status = "error" <=> ret.response.result.type = "Error"
        /\ ret.response.status = "success"
             <=> ret.response.result.type \in {"Success", "Resting"}

\* C29: a place_order call submits at most one order, as its last call to the
\* exchange; when it returns it has submitted exactly one if validation
\* passed and the leverage update, if any, succeeded, and none otherwise; no
\* call to the exchange follows the submission, whatever the reply.
C29_OneSubmissionPerCall ==
    /\ [](InPlaceOrder =>
            /\ Cardinality(SubmitCalls) <= 1
            /\ SubmitCalls \subseteq {Len(net_calls)}
            /\ SubmitCalls # {} => pc = "done"
            /\ pc = "done" =>
                 (SubmitCalls # {} <=>
                    /\ Accepted
                    /\ (LeverageCalls # {} => ~CallFailed(LeverageReply))))
    /\ [][(InPlaceOrder /\ SubmitCalls # {}) =>
             (net_calls' = <<>> /\ pc' = "idle")]_vars

\* the exchange answered the one submission of the call with an error
\* response, and the call returned without another submission
C29_Witness ==
    /\ Submitted
    /\ Cardinality(SubmitCalls) = 1
    /\ SubmitReply.transport = "ok"
    /\ SubmitReply.status = "err"
    /\ ret.kind = "Ok"
    /\ ret.response.result.type = "Error"

\* the size a submission carries
SubmittedSize(c) == IF c.call = "market_close" THEN Unwrap(c.sz) ELSE c.sz

\* C30: every order submitted to the exchange has a size greater than 0 and,
\* as a limit order, a time-in-force of Gtc, Ioc or Alo; a call whose intent
\* has a quantity of 0 or less, or another time-in-force, makes no submission.
C30_SubmittedOrdersAreWellFormed ==
    /\ \A i \in SubmitCalls :
          /\ SubmittedSize(net_calls[i]) > 0
          /\ net_calls[i].call = "order" => net_calls[i].tif \in Tifs
    /\ (InPlaceOrder /\ SubmitCalls # {}) =>
          /\ order_request.qty > 0
          /\ order_request.tif \in Tifs

\* ------------------------------------------------------------------------
\* the session is past a successful subscribe
PastSubscribe == s_pc \in {"loop", "unsubscribe", "close", "returned"}

\* C23: the subscribe message is the first message sent, and it is sent
\* before any frame is taken from the socket; the step that sends it enters
\* the loop with the flag unset and no frame consumed, so without waiting for
\* the acknowledgment; a trades frame received while the flag is unset is
\* counted and printed record by record and leaves the flag unset, and at
\* every moment the trade count is the number of trade lines printed,
\* wherever the confirmation falls among them.
C23_SubscribedBeforeReceivingAndCountedUnconfirmed ==
    /\ [](/\ PastSubscribe =>
               (sent # <<>> /\ sent[1] = [method |-> "subscribe", ok |-> TRUE])
          /\ s_pc \in {"connect", "subscribe", "failed"} =>
               (message_count = 0 /\ printed = <<>> /\ frames_left = MaxFrames)
          /\ Cardinality(Sent("subscribe")) <= 1
          /\ trade_count = Cardinality(Printed("trade")))
    /\ [][(s_pc = "subscribe" /\ s_pc' # "subscribe") =>
             /\ sent' = Append(sent, [method |-> "subscribe", ok |-> s_pc' = "loop"])
             /\ s_pc' \in {"loop", "failed"}
             /\ ~subscription_confirmed'
             /\ frames_left' = frames_left
             /\ message_count' = 0]_vars
    /\ [][\A ping_ok \in BOOLEAN, ping_delay \in 0..MaxSendDelay, a \in WholeTradeArrays :
            (/\ ~subscription_confirmed
             /\ Iterate(ping_ok, ping_delay,
                        Received(TextFrame(Some(Json(Some("trades"), Some(a)))))))
            => /\ ~subscription_confirmed'
               /\ s_pc' = "loop"
               /\ trade_count' = trade_count + Len(a)
               /\ printed' = printed \o [i \in 1..Len(a) |->
                                           [line |-> "trade", tid |-> a[i].tid]]]_vars

\* two trades were counted and printed in a session whose subscription has
\* not been acknowledged
C23_Witness ==
    /\ s_pc = "loop"
    /\ sent = << [method |-> "subscribe", ok |-> TRUE] >>
    /\ ~subscription_confirmed
    /\ trade_count = 2
    /\ printed = << [line |-> "trade", tid |-> 1], [line |-> "trade", tid |-> 2] >>

\* ------------------------------------------------------------------------
\* the events that end the receive loop
EndingOutcomes == { Received([type |-> "Close"]), StreamError, StreamEnded }

\* C25: an iteration that receives a close frame, a transport error or the
\* end of the stream leaves the loop in that step, for the cleanup, with the
\* reason recorded and nothing counted; from then on no frame is consumed,
\* no counter or flag changes, no ping is sent, the only message sent is the
\* unsubscribe, and the session never connects again.
C25_LoopEndsAtOnce ==
    /\ [][\A ping_ok \in BOOLEAN, ping_delay \in 0..MaxSendDelay, e \in EndingOutcomes :
            Iterate(ping_ok, ping_delay, e) =>
               /\ s_pc' = "unsubscribe"
               /\ exit_reason' = Some(IF e.poll = "frame" THEN "close" ELSE e.poll)
               /\ trade_count' = trade_count
               /\ subscription_confirmed' = subscription_confirmed
               /\ frames_left' = frames_left - 1]_vars
    /\ [][LoopLeft =>
             /\ frames_left' = frames_left
             /\ message_count' = message_count
             /\ trade_count' = trade_count
             /\ subscription_confirmed' = subscription_confirmed
             /\ no_message_count' = no_message_count
             /\ clock_now' = clock_now
             /\ exit_reason' = exit_reason
             /\ Sent("ping")' = Sent("ping")
             /\ Sent("subscribe")' = Sent("subscribe")
             /\ s_pc' \in {"unsubscribe", "close", "returned"}]_vars
    /\ [][s_pc # "connect" => s_pc' # "connect"]_vars
    /\ [](exit_reason \in {Some("close"), Some("error"), Some("ended")} =>
            /\ LoopLeft
            /\ printed # <<>>)

\* the session returned after a close frame that was the first of the frames
\* the remote had to deliver: the others were never received
C25_Witness ==
    /\ s_pc = "returned"
    /\ exit_reason = Some("close")
    /\ message_count = 1
    /\ frames_left = MaxFrames - 1
    /\ Sent("ping") = {}
    /\ sent = << [method |-> "subscribe", ok |-> TRUE],
                 [method |-> "unsubscribe", ok |-> TRUE] >>

\* ------------------------------------------------------------------------
\* the frames the loop body has no effect for: a text pong, a text frame of
\* another channel or of none, a text frame that does not parse, a binary
\* pong and a binary ping
IgnoredTextFrames ==
    { TextFrame(None),
      TextFrame(Some(Json(None, None))),
      TextFrame(Some(Json(Some("pong"), None))),
      TextFrame(Some(Json(Some("error"), None))) }

IgnoredFrames == IgnoredTextFrames \cup { [type |-> "Pong"], [type |-> "Ping"] }

\* C27: a text frame tagged pong, a binary pong, a text frame of another
\* channel and a text frame that does not parse change neither the trade
\* counter nor the confirmed flag, print nothing and leave the session in
\* the loop; each is counted as a message and ends the idle run; the state
\* after a binary pong is the state after a text pong.
C27_OtherFramesIgnored ==
    [][\A ping_ok \in BOOLEAN, ping_delay \in 0..MaxSendDelay, f \in IgnoredFrames :
         Iterate(ping_ok, ping_delay, Received(f)) =>
            /\ trade_count' = trade_count
            /\ subscription_confirmed' = subscription_confirmed
            /\ printed' = printed
            /\ s_pc' = "loop"
            /\ exit_reason' = None
            /\ message_count' = message_count + 1
            /\ no_message_count' = 0
            /\ clock_now' = (IF clock_now - last_ping >= PingInterval
                             THEN clock_now + ping_delay ELSE clock_now)
            /\ frames_left' = frames_left - 1]_vars

\* three frames were received and the session shows none of them: nothing
\* printed, no trade, the flag unset, the loop running
C27_Witness ==
    /\ s_pc = "loop"
    /\ message_count = MaxFrames
    /\ frames_left = 0
    /\ trade_count = 0
    /\ ~subscription_confirmed
    /\ printed = <<>>
    /\ exit_reason = None

\* ------------------------------------------------------------------------
\* the session is at the top of an iteration that passes the duration check
AtIteration == s_pc = "loop" /\ clock_now \div TicksPerSecond < duration

\* C24: an iteration that starts 30 s or more after the last heartbeat sends
\* one ping, with either result, and sets the last-heartbeat time to the
\* time the send is over, before the socket is polled: the poll's timeout
\* runs from there; an iteration that starts earlier sends nothing and leaves
\* the last-heartbeat time alone.  So each ping comes at least 30 s after the
\* one before it, or after the start of the loop.  A failed ping ends
\* nothing: the iteration leaves the loop only for a close frame, an error or
\* the end of the stream, and stream_data returns no error for it.
C24_HeartbeatEveryThirtySeconds ==
    /\ [][AtIteration =>
            IF clock_now - last_ping >= 30 * TicksPerSecond
            THEN /\ \E ok \in BOOLEAN :
                       sent' = Append(sent, [method |-> "ping", ok |-> ok])
                 /\ last_ping' \in clock_now..(clock_now + MaxSendDelay)
                 /\ last_ping' - last_ping >= 30 * TicksPerSecond
                 /\ clock_now' \in {last_ping', last_ping' + PollTimeout}
                 /\ no_message_count' = no_message_count + 1
                       => clock_now' = last_ping' + PollTimeout
            ELSE /\ sent' = sent
                 /\ last_ping' = last_ping]_vars
    /\ [][AtIteration =>
            /\ stream_ret' = stream_ret
            /\ \/ s_pc' = "loop" /\ exit_reason' = None
               \/ /\ s_pc' = "unsubscribe"
                  /\ exit_reason' \in {Some("close"), Some("error"), Some("ended")}
                  /\ frames_left' = frames_left - 1]_vars
    /\ [](\A i \in Sent("ping") : i > 1 /\ last_ping >= 30 * TicksPerSecond)
    /\ [](last_ping <= clock_now)

\* the ping due 30 s into the session failed to send, and the session went on
\* to its next iteration
C24_Witness ==
    /\ s_pc = "loop"
    /\ sent = << [method |-> "subscribe", ok |-> TRUE],
                 [method |-> "ping", ok |-> FALSE] >>
    /\ last_ping >= 30 * TicksPerSecond
    /\ clock_now > last_ping + PollTimeout
    /\ exit_reason = None

\* C26: a receive timeout adds one to the idle count and a received frame
\* sets it to zero; the quiet-market line is printed when the count reaches
\* 100 and at most once in a session.
C26_QuietDiagnosticOnce ==
    /\ Cardinality(Printed("No trades received for 10+ seconds")) <= 1
    /\ no_message_count >= 100 => Printed("No trades received for 10+ seconds") # {}
    /\ no_message_count <= clock_now

====
